---- MODULE Spec2Model ----
(***************************************************************************)
(* bevy_asset_preload: a plugin that, on entering a loading state, asks    *)
(* the asset server to load every asset (those found under ./assets, or a  *)
(* given list), then polls the load states every Update tick, writes an    *)
(* AssetPreloadUpdate message and sets the follow-up state once all are    *)
(* loaded.  Model of src/src/lib.rs.                                       *)
(*                                                                         *)
(* Strings are sequences of tokens.  The tokens are the characters the     *)
(* code looks at (".", "/", "\\") plus letters; the token "assets" stands  *)
(* for the six characters of that word, which only ever occur together in  *)
(* the names of this model, so a substring match on tokens is a substring  *)
(* match on characters.                                                    *)
(***************************************************************************)
EXTENDS Integers, Sequences, FiniteSets, TLC

\* ------------------------------------------------------------------ bounds
\* Largest number of entries (files and directories) below ./assets in WalkSpec.
MaxEntries == 3
\* Largest number of entries below ./assets in the plugin's life cycle (Spec).
MaxFolderEntries == 2
\* Longest list handed to load_given_paths.
MaxPaths == 3
\* How many times the application enters the loading state.
MaxEpisodes == 2
\* The count of next_state.set calls of one episode saturates here.
MaxSetCalls == 2

\* ----------------------------------------------------------------- strings
\* File and directory names that occur below ./assets.
NameX      == <<"x">>
NameAssets == <<"assets">>
NameDot    == <<"d", ".">>
Names == {NameX, NameAssets, NameDot}

\* Path::new("./assets")
AssetsRoot == <<".", "/", "assets">>

\* str::replace: every non-overlapping match of pat, left to right, becomes rep.
RECURSIVE replace(_, _, _)
replace(s, pat, rep) ==
    IF Len(s) < Len(pat) THEN s
    ELSE IF SubSeq(s, 1, Len(pat)) = pat
         THEN rep \o replace(SubSeq(s, Len(pat) + 1, Len(s)), pat, rep)
         ELSE <<Head(s)>> \o replace(Tail(s), pat, rep)

\* ------------------------------------------------------------- file system
\* An entry below ./assets: its names from the root down, and what it is.
\* "baddir" is a directory that read_dir cannot open.
EntryKinds == {"file", "dir", "baddir"}
RootKinds  == {"missing", "file", "dir", "baddir"}

Parent(p) == SubSeq(p, 1, Len(p) - 1)

\* The well-formed trees with at most n entries: an entry's parent is the root
\* or a directory of the tree.
RECURSIVE TreesUpTo(_)
TreesUpTo(n) ==
    IF n = 0 THEN {{}}
    ELSE LET Smaller == TreesUpTo(n - 1)
             Dirs(T) == {<<>>} \cup {e.path : e \in {d \in T : d.kind = "dir"}}
             New(T)  == {e \in [path : {Append(d, nm) : d \in Dirs(T), nm \in Names},
                                kind : EntryKinds] : \A o \in T : o.path # e.path}
         IN  Smaller \cup
             UNION {{T \cup {e} : e \in New(T)} :
                        T \in {S \in Smaller : Cardinality(S) = n - 1}}

\* All orders in which the entries of a tree can be listed.
RECURSIVE Orders(_)
Orders(S) ==
    IF S = {} THEN {<<>>}
    ELSE UNION {{<<e>> \o o : o \in Orders(S \ {e})} : e \in S}

VARIABLES
    sep,          \* the platform's path separator, "/" or "\\"
    rootKind,     \* what ./assets is
    fs,           \* the entries below ./assets
    given,        \* the list the application handed to load_given_paths
    path_source,  \* AssetPreloadPlugin.path_source
    sameType,     \* whether LoadingState and NextState are the same state type
    phase,        \* the schedule the host runs next
    started,      \* whether the host has run its first StateTransition
    lstate,       \* State<LoadingState>
    lnext,        \* NextState<LoadingState>
    fstate,       \* State<NextState> when the types differ
    fnext,        \* NextState<NextState> when the types differ
    loaded_assets,\* the LoadedAssets resource, and the episode that inserted it
    load_state,   \* the asset server's LoadState of every asset it knows
    written,      \* the AssetPreloadUpdate messages written in the current tick
    last,         \* what the plugin's systems did in the current tick; seen is
                  \* the messages already written when next_state.set was called
    setCalls,     \* next_state.set calls of the current episode (saturating)
    episodes,     \* how many times start_asset_loading has run
    paths,        \* the paths last handed to asset_server.load_untyped
    aborted       \* the process has panicked

vars == <<sep, rootKind, fs, given, path_source, sameType, phase, started, lstate, lnext,
          fstate, fnext, loaded_assets, load_state, written, last, setCalls,
          episodes, paths, aborted>>

\* entry.path() of an entry, and Path::to_str of it: the root joined with the names.
RECURSIVE PathStr(_)
PathStr(p) ==
    IF p = <<>> THEN AssetsRoot
    ELSE PathStr(Parent(p)) \o <<sep>> \o p[Len(p)]

\* Path::is_dir
is_dir(p) ==
    IF p = <<>> THEN rootKind \in {"dir", "baddir"}
    ELSE \E e \in fs : e.path = p /\ e.kind \in {"dir", "baddir"}

\* read_dir(path): the entries of the directory in listing order ord, or an error.
read_dir(p, ord) ==
    IF (p = <<>> /\ rootKind = "baddir") \/ (\E e \in fs : e.path = p /\ e.kind = "baddir")
    THEN [ok |-> FALSE, entries |-> <<>>]
    ELSE [ok |-> TRUE,
          entries |-> SelectSeq(ord, LAMBDA e : Len(e.path) = Len(p) + 1 /\ Parent(e.path) = p)]

\* The conversion of lines 131-136: backslashes become slashes, then every
\* "./assets/" is removed.
path_str(p) ==
    replace(replace(PathStr(p), <<"\\">>, <<"/">>), <<".", "/", "assets", "/">>, <<>>)

\* load_asset_paths_recursive and its for loop over the listing.
RECURSIVE load_asset_paths_recursive(_, _)
RECURSIVE walk_entries(_, _, _)
walk_entries(list, files, ord) ==
    IF list = <<>> THEN [ok |-> TRUE, files |-> files]
    ELSE LET p == Head(list).path IN
         IF is_dir(p)
         THEN LET sub == load_asset_paths_recursive(p, ord) IN
              IF sub.ok THEN walk_entries(Tail(list), files \o sub.files, ord)
              ELSE [ok |-> FALSE, files |-> <<>>]
         ELSE walk_entries(Tail(list), Append(files, path_str(p)), ord)

load_asset_paths_recursive(p, ord) ==
    IF is_dir(p)
    THEN LET rd == read_dir(p, ord) IN
         IF rd.ok THEN walk_entries(rd.entries, <<>>, ord)
         ELSE [ok |-> FALSE, files |-> <<>>]
    ELSE [ok |-> TRUE, files |-> <<>>]

\* load_asset_paths: the walk from ./assets; expect() panics on an error.
load_asset_paths(ord) == load_asset_paths_recursive(<<>>, ord)

\* ------------------------------------------------------------ the plugin
\* The states of the two state types.  The plugin is built with
\* loading_state = "Loading" and next_state = "Menu"; when the two type
\* parameters are one type, "Menu" is a value of it, else of the other type.
loading_state == "Loading"
next_state    == "Menu"

\* The strings an application hands to load_given_paths.
GivenPool == {<<"x">>, <<"y">>, <<"z">>}
GivenLists == UNION {[1..n -> GivenPool] : n \in 0..MaxPaths}

\* ToString::to_string of a string: the same characters.
to_string(str) == [i \in 1..Len(str) |-> str[i]]

RECURSIVE without_duplicates(_)
without_duplicates(L) ==
    IF L = <<>> THEN <<>>
    ELSE LET front == SubSeq(L, 1, Len(L) - 1) IN
         IF \E j \in 1..Len(front) : front[j] = L[Len(L)]
         THEN without_duplicates(front)
         ELSE Append(without_duplicates(front), L[Len(L)])

load_given_paths_deduplicated(L) ==
    [mode |-> "GivenPaths", paths |-> without_duplicates(L)]

\* AssetPreloadPlugin::load_given_paths: the path source it builds from the
\* list it is given (line 43).
load_given_paths(L) ==
    [mode |-> "GivenPaths", paths |-> [i \in 1..Len(L) |-> to_string(L[i])]]

\* AssetPreloadPlugin::load_from_asset_folder: line 33.
load_from_asset_folder == [mode |-> "LoadFromFolder", paths |-> <<>>]

\* No message written, no system of the plugin run: the start of a tick.
Quiet == [entered |-> FALSE, polled |-> FALSE, set |-> FALSE, seen |-> <<>>]

\* AssetServer::load_untyped(p) for every p of ps: an asset the server does not
\* know, or whose load failed, starts loading; the handle's id is the path.
load_untyped(ls, ps) ==
    LET ids == {ps[i] : i \in 1..Len(ps)} IN
    [id \in DOMAIN ls \cup ids |->
        IF id \in ids /\ (id \notin DOMAIN ls \/ ls[id] \in {"NotLoaded", "Failed"})
        THEN "Loading"
        ELSE ls[id]]

load_assets_drops_first(ord) ==
    LET all == IF path_source.mode = "LoadFromFolder"
               THEN load_asset_paths(ord)
               ELSE [ok |-> TRUE, files |-> path_source.paths]
    IN  [ok |-> all.ok, files |-> IF all.files = <<>> THEN <<>> ELSE Tail(all.files)]

\* PathSource::load_assets: the paths it asks the asset server for, in order;
\* ok is FALSE when load_asset_paths panics.
load_assets(ord) ==
    IF path_source.mode = "LoadFromFolder"
    THEN load_asset_paths(ord)
    ELSE [ok |-> TRUE, files |-> path_source.paths]

start_asset_loading_keeps_nothing(ord) ==
    LET got == load_assets(ord) IN
    IF got.ok
    THEN /\ paths' = got.files
         /\ load_state' = load_untyped(load_state, got.files)
         /\ loaded_assets' = [present |-> TRUE, handles |-> <<>>, since |-> episodes + 1]
         /\ episodes' = episodes + 1
         /\ setCalls' = 0
         /\ aborted' = FALSE
    ELSE /\ aborted' = TRUE
         /\ UNCHANGED <<paths, load_state, loaded_assets, episodes, setCalls>>

start_asset_loading_appends(ord) ==
    LET got == load_assets(ord) IN
    IF got.ok
    THEN /\ paths' = got.files
         /\ load_state' = load_untyped(load_state, got.files)
         /\ loaded_assets' = [present |-> TRUE,
                              handles |-> loaded_assets.handles \o got.files,
                              since |-> episodes + 1]
         /\ episodes' = episodes + 1
         /\ setCalls' = 0
         /\ aborted' = FALSE
    ELSE /\ aborted' = TRUE
         /\ UNCHANGED <<paths, load_state, loaded_assets, episodes, setCalls>>

start_asset_loading_no_insert(ord) ==
    LET got == load_assets(ord) IN
    IF got.ok
    THEN /\ paths' = got.files
         /\ load_state' = load_untyped(load_state, got.files)
         /\ loaded_assets' = loaded_assets
         /\ episodes' = episodes + 1
         /\ setCalls' = 0
         /\ aborted' = FALSE
    ELSE /\ aborted' = TRUE
         /\ UNCHANGED <<paths, load_state, loaded_assets, episodes, setCalls>>

\* start_asset_loading, with its deferred insert_resource applied at the end
\* of the schedule that ran it.
start_asset_loading(ord) ==
    LET got == load_assets(ord) IN
    IF got.ok
    THEN /\ paths' = got.files
         /\ load_state' = load_untyped(load_state, got.files)
         /\ loaded_assets' = [present |-> TRUE, handles |-> got.files, since |-> episodes + 1]
         /\ episodes' = episodes + 1
         /\ setCalls' = 0
         /\ aborted' = FALSE
    ELSE /\ aborted' = TRUE
         /\ UNCHANGED <<paths, load_state, loaded_assets, episodes, setCalls>>

\* LoadedAssets::num_loading_assets
num_loading_assets(la) == Len(la.handles)

load_failed_ignored(la, ls) == FALSE

\* Line 151: some handle of the registry reports LoadState::Failed.
load_failed(la, ls) == \E i \in 1..Len(la.handles) : ls[la.handles[i]] = "Failed"

num_loaded_not_failed(la, ls) ==
    Cardinality({i \in 1..Len(la.handles) : ls[la.handles[i]] # "Failed"})

\* Lines 147-154: the handles whose load state is Loaded, counted.
num_loaded(la, ls) ==
    Cardinality({i \in 1..Len(la.handles) : ls[la.handles[i]] = "Loaded"})

all_loaded_off_by_one(n, total) == n + 1 >= total

all_loaded_greater(n, total) == n > total

all_loaded_some(n, total) == n = total /\ total > 0

\* Line 161
all_loaded(n, total) == n = total

progress_messages_swapped(n, total) == <<[num_loaded |-> total, num_loading |-> n]>>

progress_messages_unless_done(n, total) ==
    IF n = total THEN <<>> ELSE <<[num_loaded |-> n, num_loading |-> total]>>

progress_messages_until_done(n, total) ==
    IF setCalls >= 1 THEN <<>> ELSE <<[num_loaded |-> n, num_loading |-> total]>>

\* The AssetPreloadUpdate messages one run of the poller writes (lines 156-159).
progress_messages(n, total) == <<[num_loaded |-> n, num_loading |-> total]>>

Min(a, b) == IF a < b THEN a ELSE b

written_at_set_early(before, after) == before

\* event_writer.write (line 156) comes before next_state.set (line 162): the
\* messages of the tick are written when the request is made.
written_at_set(before, after) == after

in_state_any(s) == TRUE

\* The run condition in_state(self.loading_state) of line 58.
in_state(s) == lstate = s

\* The host's StateTransition schedule, first in every tick: it applies the
\* pending NextState of each state type and runs OnEnter(loading_state).
StateTransition ==
    /\ ~aborted
    /\ phase = "StateTransition"
    /\ phase' = "Update"
    /\ started' = TRUE
    /\ written' = <<>>
    /\ lstate' = IF lnext # "Unchanged" THEN lnext ELSE lstate
    /\ lnext' = "Unchanged"
    /\ fstate' = IF fnext # "Unchanged" THEN fnext ELSE fstate
    /\ fnext' = "Unchanged"
    /\ IF lstate' = loading_state /\ (~started \/ lstate # loading_state)
       THEN /\ \E ord \in Orders(fs) : start_asset_loading(ord)
            /\ last' = [Quiet EXCEPT !.entered = TRUE]
       ELSE /\ last' = Quiet
            /\ UNCHANGED <<paths, load_state, loaded_assets, episodes, setCalls, aborted>>
    /\ UNCHANGED <<sep, rootKind, fs, given, path_source, sameType>>

\* switch_state_when_all_loaded, run in Update while in_state(loading_state).
switch_state_when_all_loaded ==
    /\ ~aborted
    /\ phase = "Update"
    /\ in_state(loading_state)
    /\ IF ~loaded_assets.present \/ load_failed(loaded_assets, load_state)
       THEN /\ aborted' = TRUE
            /\ UNCHANGED <<phase, written, last, lnext, fnext, setCalls>>
       ELSE LET n     == num_loaded(loaded_assets, load_state)
                total == num_loading_assets(loaded_assets)
            IN  /\ written' = written \o progress_messages(n, total)
                /\ IF all_loaded(n, total)
                   THEN /\ IF sameType
                           THEN lnext' = next_state /\ fnext' = fnext
                           ELSE fnext' = next_state /\ lnext' = lnext
                        /\ setCalls' = Min(setCalls + 1, MaxSetCalls)
                        /\ last' = [last EXCEPT !.polled = TRUE, !.set = TRUE,
                                                !.seen = written_at_set(written, written')]
                   ELSE /\ UNCHANGED <<lnext, fnext, setCalls>>
                        /\ last' = [last EXCEPT !.polled = TRUE]
                /\ phase' = "StateTransition"
                /\ aborted' = FALSE
    /\ UNCHANGED <<sep, rootKind, fs, given, path_source, sameType, started, lstate, fstate,
                   loaded_assets, load_state, episodes, paths>>

\* Update in a tick in which the run condition in_state(loading_state) is false.
UpdateNotLoading ==
    /\ ~aborted
    /\ phase = "Update"
    /\ ~in_state(loading_state)
    /\ phase' = "StateTransition"
    /\ UNCHANGED <<sep, rootKind, fs, given, path_source, sameType, started, lstate, lnext,
                   fstate, fnext, loaded_assets, load_state, written, last, setCalls,
                   episodes, paths, aborted>>

\* The application asks for the loading state from another state.
AppEntersLoading ==
    /\ ~aborted
    /\ phase = "Update"
    /\ lstate # loading_state
    /\ lnext = "Unchanged"
    /\ episodes < MaxEpisodes
    /\ lnext' = loading_state
    /\ UNCHANGED <<sep, rootKind, fs, given, path_source, sameType, phase, started, lstate,
                   fstate, fnext, loaded_assets, load_state, written, last, setCalls,
                   episodes, paths, aborted>>

\* With two state types the plugin never leaves the loading state itself: the
\* application does, once it sees the follow-up state.
AppLeavesLoading ==
    /\ ~aborted
    /\ phase = "StateTransition"
    /\ ~sameType
    /\ lstate = loading_state
    /\ fstate = next_state
    /\ lnext = "Unchanged"
    /\ lnext' = "Boot"
    /\ UNCHANGED <<sep, rootKind, fs, given, path_source, sameType, phase, started, lstate,
                   fstate, fnext, loaded_assets, load_state, written, last, setCalls,
                   episodes, paths, aborted>>

\* The asset server finishes loading an asset.
AssetLoaded ==
    /\ ~aborted
    /\ \E id \in DOMAIN load_state :
          /\ load_state[id] = "Loading"
          /\ load_state' = [load_state EXCEPT ![id] = "Loaded"]
    /\ UNCHANGED <<sep, rootKind, fs, given, path_source, sameType, phase, started, lstate, lnext,
                   fstate, fnext, loaded_assets, written, last, setCalls, episodes, paths,
                   aborted>>

\* The asset server fails to load an asset.
AssetFailed ==
    /\ ~aborted
    /\ \E id \in DOMAIN load_state :
          /\ load_state[id] = "Loading"
          /\ load_state' = [load_state EXCEPT ![id] = "Failed"]
    /\ UNCHANGED <<sep, rootKind, fs, given, path_source, sameType, phase, started, lstate, lnext,
                   fstate, fnext, loaded_assets, written, last, setCalls, episodes, paths,
                   aborted>>

\* The plugin as built by load_from_asset_folder or load_given_paths, in an
\* application whose loading-state type starts in "Boot" or in the loading state.
Init ==
    /\ \/ /\ given = <<>>
          /\ path_source = load_from_asset_folder
          /\ sep \in {"/", "\\"}
          /\ rootKind \in RootKinds
          /\ fs \in TreesUpTo(MaxFolderEntries)
          /\ rootKind # "dir" => fs = {}
       \/ /\ given \in GivenLists
          /\ path_source = load_given_paths(given)
          /\ sep = "/"
          /\ rootKind = "dir"
          /\ fs = {}
    /\ sameType \in BOOLEAN
    /\ phase = "StateTransition"
    /\ started = FALSE
    /\ lstate \in {"Boot", loading_state}
    /\ lnext = "Unchanged"
    /\ fstate = "Title"
    /\ fnext = "Unchanged"
    /\ loaded_assets = [present |-> FALSE, handles |-> <<>>, since |-> 0]
    /\ load_state = <<>>
    /\ written = <<>>
    /\ last = Quiet
    /\ setCalls = 0
    /\ episodes = 0
    /\ paths = <<>>
    /\ aborted = FALSE

Next ==
    \/ StateTransition
    \/ switch_state_when_all_loaded
    \/ UpdateNotLoading
    \/ AppEntersLoading
    \/ AppLeavesLoading
    \/ AssetLoaded
    \/ AssetFailed

Spec == Init /\ [][Next]_vars

\* The walk alone: ./assets is a directory holding any tree of at most
\* MaxEntries entries, and the only step is one call of load_asset_paths.
WalkInit ==
    /\ given = <<>>
    /\ path_source = load_from_asset_folder
    /\ sep \in {"/", "\\"}
    /\ rootKind = "dir"
    /\ fs \in TreesUpTo(MaxEntries)
    /\ sameType = TRUE
    /\ phase = "StateTransition"
    /\ started = FALSE
    /\ lstate = loading_state
    /\ lnext = "Unchanged"
    /\ fstate = "Title"
    /\ fnext = "Unchanged"
    /\ loaded_assets = [present |-> FALSE, handles |-> <<>>, since |-> 0]
    /\ load_state = <<>>
    /\ written = <<>>
    /\ last = Quiet
    /\ setCalls = 0
    /\ episodes = 0
    /\ paths = <<>>
    /\ aborted = FALSE

CollectPaths ==
    /\ ~started
    /\ started' = TRUE
    /\ \E ord \in Orders(fs) :
          LET got == load_asset_paths(ord) IN
          /\ paths' = got.files
          /\ aborted' = ~got.ok
    /\ UNCHANGED <<sep, rootKind, fs, given, path_source, sameType, phase, lstate, lnext, fstate,
                   fnext, loaded_assets, load_state, written, last, setCalls, episodes>>

WalkSpec == WalkInit /\ [][CollectPaths]_vars

\* ------------------------------------------------------------------ claims
\* A step of the poller: in Update, in the loading state, the only steps that
\* end the tick or the process.
PollerStep ==
    /\ ~aborted /\ phase = "Update" /\ lstate = loading_state
    /\ (phase' # phase \/ aborted')

\* The handles of the registry the asset server reports as loaded.
LoadedHandles ==
    {i \in 1..Len(loaded_assets.handles) :
        load_state[loaded_assets.handles[i]] = "Loaded"}

\* A step in which the follow-up state is requested.
RequestStep ==
    \/ last'.set /\ ~last.set
    \/ lnext' = next_state /\ lnext # next_state
    \/ fnext' = next_state /\ fnext # next_state
    \/ setCalls' > setCalls

\* C1: the poller requests the follow-up state only in a tick in which every
\* handle of the registry reports loaded, never in a tick with loaded < total.
C1_RequestOnlyWhenAllLoaded ==
    [][RequestStep =>
          /\ PollerStep
          /\ loaded_assets.present
          /\ Cardinality(LoadedHandles) = Len(loaded_assets.handles)]_vars

\* C1 witness: a tick that reported 0 < loaded < total and requested nothing.
C1_Witness ==
    /\ last.polled /\ ~last.set
    /\ Len(written) = 1
    /\ written[1].num_loaded > 0
    /\ written[1].num_loaded < written[1].num_loading
    /\ lnext = "Unchanged" /\ fnext = "Unchanged"

\* C2: in one loading episode the poller calls next_state.set exactly once,
\* in the tick in which the loaded count first reaches the total, and in no
\* later tick, whatever the two state types are.
C2_SetOncePerEpisode == setCalls <= 1

\* What does hold: with loading_state and next_state values of one state type
\* the host leaves the loading state before the next Update, so one call only.
SetOnceWhenOneStateType ==
    sameType /\ setCalls >= 1 =>
        /\ setCalls = 1
        /\ lstate = loading_state =>
              last.set /\ phase = "StateTransition" /\ lnext = next_state

\* One state type, the request made and the loading state left.
OneTypeLeft ==
    /\ sameType /\ setCalls = 1 /\ lstate = next_state
    /\ Len(loaded_assets.handles) >= 2

\* The life cycle with no load failing, the host ticking for ever and every
\* pending load finishing: what C3 assumes.
NextNoFailure ==
    \/ StateTransition
    \/ switch_state_when_all_loaded
    \/ UpdateNotLoading
    \/ AppEntersLoading
    \/ AppLeavesLoading
    \/ AssetLoaded

LiveSpec ==
    /\ Init
    /\ [][NextNoFailure]_vars
    /\ WF_vars(StateTransition)
    /\ WF_vars(switch_state_when_all_loaded)
    /\ WF_vars(UpdateNotLoading)
    /\ WF_vars(AssetLoaded)

\* The host is in the loading state with the registry in place.
InLoading == lstate = loading_state /\ loaded_assets.present /\ ~aborted

\* C3: once the host has entered the loading state, with every load finishing
\* and none failing, the poller eventually requests the follow-up state and
\* the host eventually stops invoking the poller.
C3_RequestsAndStops ==
    InLoading ~> (setCalls >= 1 /\ lstate # loading_state)

\* The half of C3 that holds for both configurations: the request is made.
EventuallyRequests == InLoading ~> (setCalls >= 1)

\* With one state type the host also leaves the loading state.
StopsWhenOneStateType ==
    (sameType /\ InLoading) ~> (setCalls >= 1 /\ lstate # loading_state)

\* C4: every message the poller writes has 0 <= num_loaded <= num_loading with
\* num_loading the registry size; the registry changes only when
\* start_asset_loading runs, and never in a step of the poller.
C4_CountsBoundedTotalFixed ==
    /\ [](\A i \in 1..Len(written) :
             /\ 0 <= written[i].num_loaded
             /\ written[i].num_loaded <= written[i].num_loading
             /\ written[i].num_loading = Len(loaded_assets.handles))
    /\ [][loaded_assets' # loaded_assets => episodes' = episodes + 1 /\ last'.entered]_vars
    /\ [][PollerStep => loaded_assets' = loaded_assets]_vars

\* C4 witness: a tick that reported 2 of 3.
C4_Witness ==
    /\ last.polled
    /\ written = <<[num_loaded |-> 2, num_loading |-> 3]>>
    /\ Len(loaded_assets.handles) = 3

\* Some handle of the registry reports a failed load.
HasFailed ==
    /\ loaded_assets.present
    /\ \E i \in 1..Len(loaded_assets.handles) :
          load_state[loaded_assets.handles[i]] = "Failed"

\* C5: a tick of the poller that finds a failed handle aborts the process in
\* that tick, writing no message and requesting no state; after the abort
\* nothing happens any more.
C5_FailureAborts ==
    /\ [][PollerStep /\ HasFailed =>
             /\ aborted'
             /\ written' = <<>>
             /\ lnext' = "Unchanged" /\ fnext' = "Unchanged"
             /\ ~last'.set /\ setCalls' = setCalls]_vars
    /\ [][~aborted]_vars

\* C5 witness: the poller aborted with one handle failed and another loaded.
C5_Witness ==
    /\ aborted /\ phase = "Update" /\ HasFailed
    /\ LoadedHandles # {}

\* C6: every tick of the poller that does not abort writes exactly one message,
\* carrying the number of loaded handles and the registry size of that tick.
C6_OneMessagePerTick ==
    [][PollerStep /\ ~aborted' =>
          /\ written = <<>>
          /\ written' = <<[num_loaded |-> Cardinality(LoadedHandles),
                           num_loading |-> Len(loaded_assets.handles)]>>]_vars

\* C6 witness: a second tick in a row with every handle loaded, so with the
\* same count as the tick before, and its message written.
C6_Witness ==
    /\ setCalls = 2 /\ last.polled
    /\ Len(written) = 1
    /\ written[1].num_loading >= 1

\* The files below ./assets.
FilesOf == {e \in fs : e.kind = "file"}

\* C7: once start_asset_loading has run the registry holds one handle per path
\* of the path set: the given list element by element, duplicates included, or
\* as many handles as there are files below ./assets; and every handle is
\* loading or resolved.
C7_OneHandlePerPath ==
    loaded_assets.present =>
        /\ path_source.mode = "GivenPaths" =>
              loaded_assets.handles = path_source.paths
        /\ path_source.mode = "LoadFromFolder" =>
              Len(loaded_assets.handles) =
                  IF rootKind = "dir" THEN Cardinality(FilesOf) ELSE 0
        /\ \A i \in 1..Len(loaded_assets.handles) :
              /\ loaded_assets.handles[i] \in DOMAIN load_state
              /\ load_state[loaded_assets.handles[i]] \in {"Loading", "Loaded", "Failed"}

\* C7 witness: the folder walk found two files and the registry was just filled.
C7_Witness ==
    /\ path_source.mode = "LoadFromFolder"
    /\ loaded_assets.present /\ last.entered
    /\ Cardinality(FilesOf) = 2
    /\ Len(loaded_assets.handles) = 2

\* C8: in folder mode, with ./assets missing or unreadable, the path
\* collection aborts the process: no path list, no registry and no request of
\* the follow-up state.
C8_MissingRootAborts ==
    path_source.mode = "LoadFromFolder" /\ rootKind \in {"missing", "baddir"} =>
        /\ ~loaded_assets.present
        /\ ~last.set /\ setCalls = 0
        /\ lstate = loading_state /\ started => aborted

\* The part of C8 the code keeps: a directory ./assets that read_dir cannot
\* open aborts the process when the loading state is entered.
UnreadableRootAborts ==
    path_source.mode = "LoadFromFolder" /\ rootKind = "baddir" =>
        /\ ~loaded_assets.present
        /\ setCalls = 0
        /\ lstate = loading_state /\ started => aborted

\* C9: the registry exists only while the host is in the loading state; once
\* the host has left it the plugin holds no handle.
C9_RegistryDroppedOnExit ==
    started /\ lstate # loading_state => ~loaded_assets.present

\* C9 amended: the plugin never removes the registry.  Once inserted it stays,
\* with the handle of every path asked of the asset server, also after the
\* host has left the loading state; only the next run of start_asset_loading
\* replaces it.
C9_RegistryKept ==
    /\ [](episodes >= 1 =>
             loaded_assets.present /\ loaded_assets.handles = paths)
    /\ [][loaded_assets.present =>
             /\ loaded_assets'.present
             /\ loaded_assets' # loaded_assets => last'.entered]_vars

\* C9 witness: the loading state left, the registry still holding two handles.
C9_Witness ==
    /\ started /\ lstate # loading_state /\ episodes = 1
    /\ loaded_assets.present
    /\ Len(loaded_assets.handles) = 2
    /\ \A i \in 1..2 : load_state[loaded_assets.handles[i]] = "Loaded"

\* The path of an entry relative to ./assets, its names joined by "/".
RECURSIVE RelativePath(_)
RelativePath(p) ==
    IF Len(p) = 1 THEN p[1]
    ELSE RelativePath(Parent(p)) \o <<"/">> \o p[Len(p)]

\* C10: for every tree below ./assets the folder walk returns exactly the
\* files of the tree, each as its path relative to ./assets with "/" between
\* the names, and as many paths as there are files.
C10_ExactlyTheFiles ==
    started /\ ~aborted =>
        /\ Len(paths) = Cardinality(FilesOf)
        /\ {paths[i] : i \in 1..Len(paths)} = {RelativePath(e.path) : e \in FilesOf}

\* The part of C10 the code keeps: one string per file, none per directory.
OneStringPerFile ==
    started /\ ~aborted => Len(paths) = Cardinality(FilesOf)

\* C11: the paths asked of the asset server on entering the loading state are
\* the list handed to load_given_paths: same elements, same order, same
\* length.
C11_GivenPathsVerbatim ==
    path_source.mode = "GivenPaths" /\ episodes >= 1 =>
        /\ paths = given
        /\ Len(paths) = Len(given)
        /\ \A i \in 1..Len(given) : given[i] \in DOMAIN load_state

\* C11 witness: a list of three with a repeated path, asked for as given.
C11_Witness ==
    /\ path_source.mode = "GivenPaths" /\ episodes >= 1
    /\ Len(given) = 3
    /\ given[1] = given[3] /\ given[1] # given[2]
    /\ paths = given

\* C12: a run of the poller after the one that found every handle loaded
\* writes the same message {total, total}; a request it makes names the same
\* next_state, and the state of neither state type changes by it.
C12_RepeatedPollIdempotent ==
    [][PollerStep /\ setCalls >= 1 =>
          /\ ~aborted'
          /\ written' = <<[num_loaded  |-> Len(loaded_assets.handles),
                           num_loading |-> Len(loaded_assets.handles)]>>
          /\ lnext' \in {lnext, next_state}
          /\ fnext' \in {fnext, next_state}
          /\ lstate' = lstate /\ fstate' = fstate
          /\ (sameType \/ fstate = next_state)]_vars

\* C12 witness: the second run in a row with one handle, all loaded, the
\* follow-up state already reached and requested again.
C12_Witness ==
    /\ setCalls = 2 /\ last.polled /\ last.set
    /\ fstate = next_state /\ fnext = next_state
    /\ written = <<[num_loaded |-> 1, num_loading |-> 1]>>

\* Every handle of the registry reports loaded.
AllHandlesLoaded ==
    /\ loaded_assets.present
    /\ \A i \in 1..Len(loaded_assets.handles) :
          load_state[loaded_assets.handles[i]] = "Loaded"

\* C13: a tick of the poller in which every handle reports loaded requests the
\* follow-up state in that same tick, the message {total, total} of the tick
\* written before the request.
C13_RequestInSameTick ==
    [][PollerStep /\ AllHandlesLoaded =>
          /\ last'.set /\ phase' = "StateTransition"
          /\ IF sameType THEN lnext' = next_state ELSE fnext' = next_state
          /\ written' = <<[num_loaded  |-> Len(loaded_assets.handles),
                           num_loading |-> Len(loaded_assets.handles)]>>
          /\ last'.seen = written']_vars

\* C13 witness: the first request of the first episode, made over three
\* different assets in the tick that reported {3, 3}.
C13_Witness ==
    /\ last.set /\ setCalls = 1 /\ episodes = 1
    /\ Cardinality({loaded_assets.handles[i] : i \in 1..Len(loaded_assets.handles)}) = 3
    /\ last.seen = <<[num_loaded |-> 3, num_loading |-> 3]>>

\* C14: the poller runs in every tick in which the host is in the loading
\* state and in no other: a tick that ends outside the loading state has run
\* no poller, written no message and requested nothing.
C14_PollsExactlyWhileLoading ==
    /\ started /\ ~aborted /\ phase = "StateTransition" =>
          (last.polled <=> lstate = loading_state)
    /\ lstate # loading_state =>
          ~last.polled /\ ~last.set /\ written = <<>>

\* C14 witness: a whole tick spent in the follow-up state after an episode.
C14_Witness ==
    /\ started /\ ~aborted /\ phase = "StateTransition"
    /\ lstate = next_state /\ lnext = "Unchanged" /\ episodes = 1
    /\ ~last.polled /\ written = <<>>
    /\ Len(loaded_assets.handles) >= 1

\* C15: start_asset_loading runs once for every entry into the loading state
\* and at no other moment, and the registry it inserts replaces the one
\* before: it holds the handles of the newly resolved paths only.
C15_LoadStartOncePerEntry ==
    /\ [][episodes' # episodes =>
             /\ episodes' = episodes + 1
             /\ lstate' = loading_state /\ (lstate # loading_state \/ ~started)
             /\ loaded_assets'.since = episodes'
             /\ loaded_assets'.handles = paths'
             /\ path_source.mode = "GivenPaths" => Len(loaded_assets'.handles) = Len(given)
             /\ path_source.mode = "LoadFromFolder" =>
                   Len(loaded_assets'.handles) = Cardinality(FilesOf)]_vars
    /\ [][lstate' = loading_state /\ (lstate # loading_state \/ started' # started) =>
             aborted' \/ (episodes' = episodes + 1 /\ last'.entered)]_vars
    /\ [](last.entered => lstate = loading_state /\ loaded_assets.since = episodes)

\* C15 witness: the second entry, its registry of two handles in place.
C15_Witness ==
    /\ episodes = 2 /\ last.entered
    /\ loaded_assets.since = 2
    /\ Len(loaded_assets.handles) = 2

\* C16: the count the poller reports is the number of handles whose load
\* state is Loaded; a handle still loading is not counted and aborts nothing,
\* and the poller aborts exactly when some handle has failed.
C16_CountsLoadedOnly ==
    [][PollerStep =>
          /\ aborted' <=> HasFailed
          /\ ~aborted' =>
                /\ Len(written') = 1
                /\ written'[1].num_loaded = Cardinality(LoadedHandles)
                /\ written'[1].num_loaded =
                      Len(loaded_assets.handles)
                      - Cardinality({i \in 1..Len(loaded_assets.handles) :
                                        load_state[loaded_assets.handles[i]] = "Loading"})]_vars

\* C16 witness: a tick ended with one handle still loading and one loaded, the
\* poller having reported 1 of 2 and not aborted.
C16_Witness ==
    /\ last.polled /\ ~aborted /\ phase = "StateTransition"
    /\ written = <<[num_loaded |-> 1, num_loading |-> 2]>>
    /\ Cardinality(LoadedHandles) = 1
    /\ \E i \in 1..Len(loaded_assets.handles) :
          load_state[loaded_assets.handles[i]] = "Loading"

\* C17: every run of the poller finds the registry present, and it is the one
\* the start_asset_loading of the current episode inserted.
C17_RegistryBeforeFirstPoll ==
    [][PollerStep =>
          /\ loaded_assets.present
          /\ episodes >= 1
          /\ loaded_assets.since = episodes
          /\ loaded_assets.handles = paths]_vars

\* C17 witness: the poller has run in the very tick that entered the loading
\* state for the second time, on the registry of the second episode.
C17_Witness ==
    /\ last.entered /\ last.polled /\ ~aborted
    /\ episodes = 2 /\ loaded_assets.since = 2
    /\ Len(loaded_assets.handles) >= 1

\* C18: with an empty path set the first tick of the poller writes {0, 0} and
\* requests the follow-up state in that same tick.
C18_EmptySetCompletesAtOnce ==
    [][PollerStep /\ loaded_assets.present /\ loaded_assets.handles = <<>> =>
          /\ ~aborted'
          /\ written' = <<[num_loaded |-> 0, num_loading |-> 0]>>
          /\ last'.set
          /\ IF sameType THEN lnext' = next_state ELSE fnext' = next_state]_vars

\* C18 witness: a folder walk over a directory that holds only an empty
\* directory, and the first tick of the episode has requested the next state.
C18_Witness ==
    /\ path_source.mode = "LoadFromFolder" /\ rootKind = "dir"
    /\ fs # {} /\ FilesOf = {}
    /\ last.entered /\ last.set /\ episodes = 1
    /\ written = <<[num_loaded |-> 0, num_loading |-> 0]>>
    /\ DOMAIN load_state = {}

====
